---------------------------- MODULE Spec2Model ----------------------------
(***************************************************************************)
(* A model of the UPS patch library (lib/src): the varint codec, the       *)
(* CRC-32 checksum, the byte diff iterator, and Patch::parse, serialize,   *)
(* diff and patch (apply / revert).                                        *)
(*                                                                         *)
(* Bytes are the integers 0..255 and a byte buffer is a sequence of them.  *)
(* A usize is an integer in 0..UsizeMax; a u32 checksum is kept as its two *)
(* 16-bit halves because the model checker's integers are 32-bit signed.   *)
(***************************************************************************)
EXTENDS Integers, Sequences, FiniteSets, TLC

VARIABLES
    pc,          \* position of the scenario being run
    varint,      \* varint.rs: the usize handed to write_bytes
    buf,         \* varint.rs: the byte buffer written / read
    decoded,     \* varint.rs: what read_bytes returned
    src,         \* Patch::diff: source file
    dst,         \* Patch::diff: destination file
    patch,       \* a Patch value (from diff, or built field by field)
    direction,   \* Patch::patch: PatchDirection
    input,       \* Patch::patch: the input buffer
    result,      \* Patch::patch: its return value
    serialized,  \* the bytes handed to Patch::parse
    overwrite,   \* what a test overwrote in `serialized`
    parsed,      \* Patch::parse: its return value
    runs,        \* the zero-terminated runs a destination file is built from
    iter,        \* util.rs: a SliceDiffs iterator
    ranges,      \* util.rs: the ranges the iterator has yielded so far
    roundtrip,   \* Patch::revert on the output of a successful apply
    given_errors,  \* UpsPatchErrors::check_errors: the errors handed to it
    given_output,  \* UpsPatchErrors::check_errors: the output handed to it
    walk         \* Patch::patch: what the loop over the blocks did, block by block

vars == <<pc, varint, buf, decoded, src, dst, patch, direction, input, result,
          serialized, overwrite, parsed, runs, iter, ranges, roundtrip,
          given_errors, given_output, walk>>

-----------------------------------------------------------------------------
(* Bounds of the model *)

\* Width of usize in bits (16 is the width of Rust's 16-bit targets).
UsizeBits == 16
\* Longest raw byte stream handed to varint::read_bytes.
MaxStream == 3
\* Longest source / destination file handed to Patch::diff.
MaxLen == 3
\* Most blocks in a Patch built field by field.
MaxBlocks == 2
\* Longest raw byte sequence handed to Patch::parse.
MaxRaw == 4
\* Longest input buffer handed to Patch::patch.
MaxInput == 2
\* Most runs a destination file is built from.
MaxRuns == 3
\* Most errors handed to UpsPatchErrors::check_errors.
MaxErrors == 3
\* Longest tail by which one file exceeds the other in the tail scenario.
MaxTail == 4

-----------------------------------------------------------------------------
(* Machine arithmetic *)

RECURSIVE Pow2(_)
Pow2(n) == IF n = 0 THEN 1 ELSE 2 * Pow2(n - 1)

UsizeMax == Pow2(UsizeBits) - 1

Min(a, b) == IF a < b THEN a ELSE b

\* a ^ b on 4-bit values: Xor4[a + 1][b + 1]
Xor4 == <<
    <<0, 1, 2, 3, 4, 5, 6, 7, 8, 9, 10, 11, 12, 13, 14, 15>>,
    <<1, 0, 3, 2, 5, 4, 7, 6, 9, 8, 11, 10, 13, 12, 15, 14>>,
    <<2, 3, 0, 1, 6, 7, 4, 5, 10, 11, 8, 9, 14, 15, 12, 13>>,
    <<3, 2, 1, 0, 7, 6, 5, 4, 11, 10, 9, 8, 15, 14, 13, 12>>,
    <<4, 5, 6, 7, 0, 1, 2, 3, 12, 13, 14, 15, 8, 9, 10, 11>>,
    <<5, 4, 7, 6, 1, 0, 3, 2, 13, 12, 15, 14, 9, 8, 11, 10>>,
    <<6, 7, 4, 5, 2, 3, 0, 1, 14, 15, 12, 13, 10, 11, 8, 9>>,
    <<7, 6, 5, 4, 3, 2, 1, 0, 15, 14, 13, 12, 11, 10, 9, 8>>,
    <<8, 9, 10, 11, 12, 13, 14, 15, 0, 1, 2, 3, 4, 5, 6, 7>>,
    <<9, 8, 11, 10, 13, 12, 15, 14, 1, 0, 3, 2, 5, 4, 7, 6>>,
    <<10, 11, 8, 9, 14, 15, 12, 13, 2, 3, 0, 1, 6, 7, 4, 5>>,
    <<11, 10, 9, 8, 15, 14, 13, 12, 3, 2, 1, 0, 7, 6, 5, 4>>,
    <<12, 13, 14, 15, 8, 9, 10, 11, 4, 5, 6, 7, 0, 1, 2, 3>>,
    <<13, 12, 15, 14, 9, 8, 11, 10, 5, 4, 7, 6, 1, 0, 3, 2>>,
    <<14, 15, 12, 13, 10, 11, 8, 9, 6, 7, 4, 5, 2, 3, 0, 1>>,
    <<15, 14, 13, 12, 11, 10, 9, 8, 7, 6, 5, 4, 3, 2, 1, 0>> >>

\* a ^ b on u8
BitXor(a, b) ==
    16 * Xor4[(a \div 16) + 1][(b \div 16) + 1] + Xor4[(a % 16) + 1][(b % 16) + 1]

\* a & b on non-negative integers
RECURSIVE BitAnd(_, _)
BitAnd(a, b) ==
    IF a = 0 \/ b = 0 THEN 0
    ELSE ((a % 2) * (b % 2)) + 2 * BitAnd(a \div 2, b \div 2)

\* a | b on non-negative integers
BitOr(a, b) == a + b - BitAnd(a, b)

\* Option<T>
None == [is_some |-> FALSE]
Some(v) == [is_some |-> TRUE, value |-> v]

-----------------------------------------------------------------------------
(* checksum.rs: CRC-32 (IEEE, reflected polynomial 0xEDB88320) *)

\* Checksum(u32), kept as [hi, lo], the upper and lower 16 bits.
Checksum(hi16, lo16) == [hi |-> hi16, lo |-> lo16]

\* The byte-wise lookup table of CRC-32: entry n + 1 holds the four bytes, least
\* significant first, of n after eight steps of
\* c = if c & 1 != 0 { 0xEDB88320 ^ (c >> 1) } else { c >> 1 }.
CrcTable == <<
    <<0, 0, 0, 0>>, <<150, 48, 7, 119>>, <<44, 97, 14, 238>>, <<186, 81, 9, 153>>,
    <<25, 196, 109, 7>>, <<143, 244, 106, 112>>, <<53, 165, 99, 233>>, <<163, 149, 100, 158>>,
    <<50, 136, 219, 14>>, <<164, 184, 220, 121>>, <<30, 233, 213, 224>>, <<136, 217, 210, 151>>,
    <<43, 76, 182, 9>>, <<189, 124, 177, 126>>, <<7, 45, 184, 231>>, <<145, 29, 191, 144>>,
    <<100, 16, 183, 29>>, <<242, 32, 176, 106>>, <<72, 113, 185, 243>>, <<222, 65, 190, 132>>,
    <<125, 212, 218, 26>>, <<235, 228, 221, 109>>, <<81, 181, 212, 244>>, <<199, 133, 211, 131>>,
    <<86, 152, 108, 19>>, <<192, 168, 107, 100>>, <<122, 249, 98, 253>>, <<236, 201, 101, 138>>,
    <<79, 92, 1, 20>>, <<217, 108, 6, 99>>, <<99, 61, 15, 250>>, <<245, 13, 8, 141>>,
    <<200, 32, 110, 59>>, <<94, 16, 105, 76>>, <<228, 65, 96, 213>>, <<114, 113, 103, 162>>,
    <<209, 228, 3, 60>>, <<71, 212, 4, 75>>, <<253, 133, 13, 210>>, <<107, 181, 10, 165>>,
    <<250, 168, 181, 53>>, <<108, 152, 178, 66>>, <<214, 201, 187, 219>>, <<64, 249, 188, 172>>,
    <<227, 108, 216, 50>>, <<117, 92, 223, 69>>, <<207, 13, 214, 220>>, <<89, 61, 209, 171>>,
    <<172, 48, 217, 38>>, <<58, 0, 222, 81>>, <<128, 81, 215, 200>>, <<22, 97, 208, 191>>,
    <<181, 244, 180, 33>>, <<35, 196, 179, 86>>, <<153, 149, 186, 207>>, <<15, 165, 189, 184>>,
    <<158, 184, 2, 40>>, <<8, 136, 5, 95>>, <<178, 217, 12, 198>>, <<36, 233, 11, 177>>,
    <<135, 124, 111, 47>>, <<17, 76, 104, 88>>, <<171, 29, 97, 193>>, <<61, 45, 102, 182>>,
    <<144, 65, 220, 118>>, <<6, 113, 219, 1>>, <<188, 32, 210, 152>>, <<42, 16, 213, 239>>,
    <<137, 133, 177, 113>>, <<31, 181, 182, 6>>, <<165, 228, 191, 159>>, <<51, 212, 184, 232>>,
    <<162, 201, 7, 120>>, <<52, 249, 0, 15>>, <<142, 168, 9, 150>>, <<24, 152, 14, 225>>,
    <<187, 13, 106, 127>>, <<45, 61, 109, 8>>, <<151, 108, 100, 145>>, <<1, 92, 99, 230>>,
    <<244, 81, 107, 107>>, <<98, 97, 108, 28>>, <<216, 48, 101, 133>>, <<78, 0, 98, 242>>,
    <<237, 149, 6, 108>>, <<123, 165, 1, 27>>, <<193, 244, 8, 130>>, <<87, 196, 15, 245>>,
    <<198, 217, 176, 101>>, <<80, 233, 183, 18>>, <<234, 184, 190, 139>>, <<124, 136, 185, 252>>,
    <<223, 29, 221, 98>>, <<73, 45, 218, 21>>, <<243, 124, 211, 140>>, <<101, 76, 212, 251>>,
    <<88, 97, 178, 77>>, <<206, 81, 181, 58>>, <<116, 0, 188, 163>>, <<226, 48, 187, 212>>,
    <<65, 165, 223, 74>>, <<215, 149, 216, 61>>, <<109, 196, 209, 164>>, <<251, 244, 214, 211>>,
    <<106, 233, 105, 67>>, <<252, 217, 110, 52>>, <<70, 136, 103, 173>>, <<208, 184, 96, 218>>,
    <<115, 45, 4, 68>>, <<229, 29, 3, 51>>, <<95, 76, 10, 170>>, <<201, 124, 13, 221>>,
    <<60, 113, 5, 80>>, <<170, 65, 2, 39>>, <<16, 16, 11, 190>>, <<134, 32, 12, 201>>,
    <<37, 181, 104, 87>>, <<179, 133, 111, 32>>, <<9, 212, 102, 185>>, <<159, 228, 97, 206>>,
    <<14, 249, 222, 94>>, <<152, 201, 217, 41>>, <<34, 152, 208, 176>>, <<180, 168, 215, 199>>,
    <<23, 61, 179, 89>>, <<129, 13, 180, 46>>, <<59, 92, 189, 183>>, <<173, 108, 186, 192>>,
    <<32, 131, 184, 237>>, <<182, 179, 191, 154>>, <<12, 226, 182, 3>>, <<154, 210, 177, 116>>,
    <<57, 71, 213, 234>>, <<175, 119, 210, 157>>, <<21, 38, 219, 4>>, <<131, 22, 220, 115>>,
    <<18, 11, 99, 227>>, <<132, 59, 100, 148>>, <<62, 106, 109, 13>>, <<168, 90, 106, 122>>,
    <<11, 207, 14, 228>>, <<157, 255, 9, 147>>, <<39, 174, 0, 10>>, <<177, 158, 7, 125>>,
    <<68, 147, 15, 240>>, <<210, 163, 8, 135>>, <<104, 242, 1, 30>>, <<254, 194, 6, 105>>,
    <<93, 87, 98, 247>>, <<203, 103, 101, 128>>, <<113, 54, 108, 25>>, <<231, 6, 107, 110>>,
    <<118, 27, 212, 254>>, <<224, 43, 211, 137>>, <<90, 122, 218, 16>>, <<204, 74, 221, 103>>,
    <<111, 223, 185, 249>>, <<249, 239, 190, 142>>, <<67, 190, 183, 23>>, <<213, 142, 176, 96>>,
    <<232, 163, 214, 214>>, <<126, 147, 209, 161>>, <<196, 194, 216, 56>>, <<82, 242, 223, 79>>,
    <<241, 103, 187, 209>>, <<103, 87, 188, 166>>, <<221, 6, 181, 63>>, <<75, 54, 178, 72>>,
    <<218, 43, 13, 216>>, <<76, 27, 10, 175>>, <<246, 74, 3, 54>>, <<96, 122, 4, 65>>,
    <<195, 239, 96, 223>>, <<85, 223, 103, 168>>, <<239, 142, 110, 49>>, <<121, 190, 105, 70>>,
    <<140, 179, 97, 203>>, <<26, 131, 102, 188>>, <<160, 210, 111, 37>>, <<54, 226, 104, 82>>,
    <<149, 119, 12, 204>>, <<3, 71, 11, 187>>, <<185, 22, 2, 34>>, <<47, 38, 5, 85>>,
    <<190, 59, 186, 197>>, <<40, 11, 189, 178>>, <<146, 90, 180, 43>>, <<4, 106, 179, 92>>,
    <<167, 255, 215, 194>>, <<49, 207, 208, 181>>, <<139, 158, 217, 44>>, <<29, 174, 222, 91>>,
    <<176, 194, 100, 155>>, <<38, 242, 99, 236>>, <<156, 163, 106, 117>>, <<10, 147, 109, 2>>,
    <<169, 6, 9, 156>>, <<63, 54, 14, 235>>, <<133, 103, 7, 114>>, <<19, 87, 0, 5>>,
    <<130, 74, 191, 149>>, <<20, 122, 184, 226>>, <<174, 43, 177, 123>>, <<56, 27, 182, 12>>,
    <<155, 142, 210, 146>>, <<13, 190, 213, 229>>, <<183, 239, 220, 124>>, <<33, 223, 219, 11>>,
    <<212, 210, 211, 134>>, <<66, 226, 212, 241>>, <<248, 179, 221, 104>>, <<110, 131, 218, 31>>,
    <<205, 22, 190, 129>>, <<91, 38, 185, 246>>, <<225, 119, 176, 111>>, <<119, 71, 183, 24>>,
    <<230, 90, 8, 136>>, <<112, 106, 15, 255>>, <<202, 59, 6, 102>>, <<92, 11, 1, 17>>,
    <<255, 158, 101, 143>>, <<105, 174, 98, 248>>, <<211, 255, 107, 97>>, <<69, 207, 108, 22>>,
    <<120, 226, 10, 160>>, <<238, 210, 13, 215>>, <<84, 131, 4, 78>>, <<194, 179, 3, 57>>,
    <<97, 38, 103, 167>>, <<247, 22, 96, 208>>, <<77, 71, 105, 73>>, <<219, 119, 110, 62>>,
    <<74, 106, 209, 174>>, <<220, 90, 214, 217>>, <<102, 11, 223, 64>>, <<240, 59, 216, 55>>,
    <<83, 174, 188, 169>>, <<197, 158, 187, 222>>, <<127, 207, 178, 71>>, <<233, 255, 181, 48>>,
    <<28, 242, 189, 189>>, <<138, 194, 186, 202>>, <<48, 147, 179, 83>>, <<166, 163, 180, 36>>,
    <<5, 54, 208, 186>>, <<147, 6, 215, 205>>, <<41, 87, 222, 84>>, <<191, 103, 217, 35>>,
    <<46, 122, 102, 179>>, <<184, 74, 97, 196>>, <<2, 27, 104, 93>>, <<148, 43, 111, 42>>,
    <<55, 190, 11, 180>>, <<161, 142, 12, 195>>, <<27, 223, 5, 90>>, <<141, 239, 2, 45>> >>

\* Hasher::update for one byte; the state is the four bytes of the u32, least
\* significant first: state = table[(state ^ byte) & 0xff] ^ (state >> 8)
CrcUpdate[state \in Seq(0..255), byte \in 0..255] ==
    LET t == CrcTable[BitXor(state[1], byte) + 1]
    IN  <<BitXor(t[1], state[2]), BitXor(t[2], state[3]), BitXor(t[3], state[4]), t[4]>>

\* The hasher's state after the first n bytes of data, starting from 0xFFFFFFFF
RECURSIVE CrcFold(_, _)
CrcFold(data, n) ==
    IF n = 0 THEN <<255, 255, 255, 255>>
    ELSE CrcUpdate[CrcFold(data, n - 1), data[n]]

\* Checksum::from_bytes: Hasher::new, update, finalize (state ^ 0xFFFFFFFF)
from_bytes(data) ==
    LET state == CrcFold(data, Len(data))
    IN  Checksum((255 - state[3]) + 256 * (255 - state[4]),
                 (255 - state[1]) + 256 * (255 - state[2]))

\* u32::to_le_bytes / u32::from_le_bytes on a Checksum
to_le_bytes(c) == <<c.lo % 256, c.lo \div 256, c.hi % 256, c.hi \div 256>>
from_le_bytes(b) == Checksum(b[3] + 256 * b[4], b[1] + 256 * b[2])

-----------------------------------------------------------------------------
(* varint.rs *)

\* usize::checked_shl: None only when the shift reaches the width; bits
\* shifted out of the word are dropped.
checked_shl(x, shift) ==
    IF shift >= UsizeBits THEN None
    ELSE Some((x * Pow2(shift)) % Pow2(UsizeBits))

\* usize::checked_add
checked_add(a, b) == IF a + b > UsizeMax THEN None ELSE Some(a + b)

varint_add_shifted(current, x, shift) ==
    LET x2 == checked_shl(x, shift)
    IN  IF x2.is_some THEN checked_add(current, x2.value) ELSE None

\* read_bytes(&mut buf): [value |-> Option<usize>, buf |-> what is left of buf]
RECURSIVE read_bytes_loop(_, _, _)
read_bytes_loop(b, v, shift) ==
    IF b = <<>> THEN [value |-> None, buf |-> b]
    ELSE LET c == Head(b)
             next_buf == Tail(b)
         IN  IF BitAnd(c, 128) # 0
             THEN [value |-> varint_add_shifted(v, BitAnd(c, 127), shift),
                   buf |-> next_buf]
             ELSE LET r == varint_add_shifted(v, BitOr(c, 128), shift)
                  IN  IF r.is_some
                      THEN read_bytes_loop(next_buf, r.value, shift + 7)
                      ELSE [value |-> None, buf |-> next_buf]

read_bytes(b) == read_bytes_loop(b, 0, 0)

\* write_bytes without the decrement of the shifted remainder (plain LEB128)
RECURSIVE write_bytes_no_decrement(_, _)
write_bytes_no_decrement(b, v) ==
    LET x == BitAnd(v, 127)
        v1 == v \div 128
    IN  IF v1 = 0 THEN Append(b, BitOr(x, 128))
        ELSE write_bytes_no_decrement(Append(b, x), v1)

\* write_bytes(&mut buf, varint): the buffer afterwards
RECURSIVE write_bytes(_, _)
write_bytes(b, v) ==
    LET x == BitAnd(v, 127)
        v1 == v \div 128
    IN  IF v1 = 0 THEN Append(b, BitOr(x, 128))
        ELSE write_bytes(Append(b, x), v1 - 1)

-----------------------------------------------------------------------------
(* Slices *)

\* &s[n..]
Drop(s, n) == SubSeq(s, n + 1, Len(s))
\* &s[..n]
Take(s, n) == SubSeq(s, 1, n)

\* memchr(needle, haystack): the 0-based index of the first needle
RECURSIVE memchr_from(_, _, _)
memchr_from(needle, haystack, i) ==
    IF i >= Len(haystack) THEN None
    ELSE IF haystack[i + 1] = needle THEN Some(i)
    ELSE memchr_from(needle, haystack, i + 1)

\* Variant: the 0-based index of the last needle.
memchr_last(needle, haystack) ==
    LET found == {i \in 0..(Len(haystack) - 1) : haystack[i + 1] = needle}
    IN  IF found = {} THEN None
        ELSE Some(CHOOSE i \in found : \A j \in found : j <= i)

memchr(needle, haystack) == memchr_from(needle, haystack, 0)

\* s.iter().position(|x| *x != 0)
RECURSIVE position_nonzero_from(_, _)
position_nonzero_from(s, i) ==
    IF i >= Len(s) THEN None
    ELSE IF s[i + 1] # 0 THEN Some(i)
    ELSE position_nonzero_from(s, i + 1)

\* Variant: the position of the first byte, zero or not.
position_first(s) == IF s = <<>> THEN None ELSE Some(0)

position_nonzero(s) == position_nonzero_from(s, 0)

\* a.iter().zip(b).position(|(a, b)| (a == b) == eq)
RECURSIVE zip_position_from(_, _, _, _)
zip_position_from(a, b, eq, i) ==
    IF i >= Min(Len(a), Len(b)) THEN None
    ELSE IF (a[i + 1] = b[i + 1]) = eq THEN Some(i)
    ELSE zip_position_from(a, b, eq, i + 1)

\* Variant: the predicate negated, as if `!=` and `==` were swapped.
zip_position_flipped(a, b, eq) == zip_position_from(a, b, ~eq, 0)

zip_position(a, b, eq) == zip_position_from(a, b, eq, 0)

-----------------------------------------------------------------------------
(* util.rs: SliceDiffs *)

SliceDiffs_new(a, b) == [index |-> 0, a |-> a, b |-> b]

\* Variant: the range is reported relative to the slices left, self.index
\* is not added.
SliceDiffs_next_relative(it) ==
    LET rs == zip_position(it.a, it.b, FALSE)
    IN  IF ~rs.is_some THEN [item |-> None, it |-> it]
        ELSE LET a == Drop(it.a, rs.value)
                 b == Drop(it.b, rs.value)
                 re == zip_position(a, b, TRUE)
                 rel_end == IF re.is_some THEN re.value ELSE Min(Len(a), Len(b))
             IN  [item |-> Some([start |-> rs.value, end |-> rs.value + rel_end]),
                  it |-> [index |-> it.index + rs.value + rel_end,
                          a |-> Drop(a, rel_end),
                          b |-> Drop(b, rel_end)]]

\* Iterator::next: [item |-> Option<Range>, it |-> the iterator afterwards]
SliceDiffs_next(it) ==
    LET rs == zip_position(it.a, it.b, FALSE)
    IN  IF ~rs.is_some THEN [item |-> None, it |-> it]
        ELSE LET rel_start == rs.value
                 a == Drop(it.a, rel_start)
                 b == Drop(it.b, rel_start)
                 re == zip_position(a, b, TRUE)
                 rel_end == IF re.is_some THEN re.value ELSE Min(Len(a), Len(b))
                 start == rel_start + it.index
                 end == start + rel_end
             IN  [item |-> Some([start |-> start, end |-> end]),
                  it |-> [index |-> it.index + rel_start + rel_end,
                          a |-> Drop(a, rel_end),
                          b |-> Drop(b, rel_end)]]

-----------------------------------------------------------------------------
(* patch/error.rs *)

Panic == [tag |-> "Panic"]

\* MetadataMismatch is [Size |-> [expected, actual]] or
\* [Checksum |-> [expected, actual]], a record named after its variant.
MetadataMismatch_size(expected, actual) ==
    IF expected = actual THEN None
    ELSE Some([Size |-> [expected |-> expected, actual |-> actual]])

MetadataMismatch_checksum(expected, actual) ==
    IF expected = actual THEN None
    ELSE Some([Checksum |-> [expected |-> expected, actual |-> actual]])

\* Variant: only the popped error is kept.
check_errors_first_only(output, errors) ==
    IF errors # <<>>
    THEN [tag |-> "Err", output |-> output,
          fst_error |-> errors[Len(errors)], errors |-> <<>>]
    ELSE [tag |-> "Ok", output |-> output]

\* UpsPatchErrors::check_errors(output, errors)
check_errors(output, errors) ==
    IF errors # <<>>
    THEN [tag |-> "Err",
          output |-> output,
          fst_error |-> errors[Len(errors)],
          errors |-> Take(errors, Len(errors) - 1)]
    ELSE [tag |-> "Ok", output |-> output]

\* IntoIterator for &UpsPatchErrors: once(fst_error).chain(errors)
ErrorsIter(e) == <<e.fst_error>> \o e.errors

FormatMismatch(msg) == [tag |-> "FormatMismatch", msg |-> msg]

PatchChecksumMismatch(parsed_patch, expected, actual) ==
    [tag |-> "PatchChecksumMismatch", parsed_patch |-> parsed_patch,
     expected |-> expected, actual |-> actual]

ParseOk(parsed_patch) == [tag |-> "Ok", parsed_patch |-> parsed_patch]

-----------------------------------------------------------------------------
(* patch/mod.rs *)

MAGIC == <<85, 80, 83, 49>>   \* b"UPS1"

\* Variant: every block gets offset 0.
Block_offset_zero(offset, xor_data) == [offset |-> 0, xor_data |-> xor_data]

Block(offset, xor_data) == [offset |-> offset, xor_data |-> xor_data]

\* PatchDirection::metadata
PatchDirection_metadata(dir, self) ==
    IF dir = "Apply"
    THEN [input_size |-> self.src_size,
          input_checksum |-> self.src_checksum,
          output_size |-> self.dst_size,
          output_checksum |-> self.dst_checksum]
    ELSE [input_size |-> self.dst_size,
          input_checksum |-> self.dst_checksum,
          output_size |-> self.src_size,
          output_checksum |-> self.src_checksum]

\* PatchDirection::input_metadata_error
input_metadata_error(dir, mismatch) ==
    IF dir = "Apply"
    THEN [tag |-> "SourceMetadataMismatch", mismatch |-> mismatch]
    ELSE [tag |-> "DestMetadataMismatch", mismatch |-> mismatch]

\* output_metadata_error that tags the destination in both directions
output_metadata_error_always_dest(dir, mismatch) ==
    [tag |-> "DestMetadataMismatch", mismatch |-> mismatch]

\* PatchDirection::output_metadata_error
output_metadata_error(dir, mismatch) ==
    IF dir = "Apply"
    THEN [tag |-> "DestMetadataMismatch", mismatch |-> mismatch]
    ELSE [tag |-> "SourceMetadataMismatch", mismatch |-> mismatch]

\* starts_with that compares the first byte only
starts_with_first_byte(s, prefix) == Len(s) >= Len(prefix) /\ s[1] = prefix[1]

\* input.starts_with(MAGIC)
starts_with(s, prefix) == Len(s) >= Len(prefix) /\ Take(s, Len(prefix)) = prefix

\* read_checksum(&mut buf): [value |-> Option<Checksum>, buf |-> the rest]
read_checksum(b) ==
    IF Len(b) < 4 THEN [value |-> None, buf |-> b]
    ELSE [value |-> Some(from_le_bytes(Take(b, 4))), buf |-> Drop(b, 4)]

\* the split that leaves the terminating 0x00 out of xor_data
split_xor_data_before_zero(body) ==
    LET m == memchr(0, body)
    IN  IF m.is_some THEN <<Take(body, m.value), Drop(body, m.value)>>
        ELSE <<body, <<>>>>

\* Patch::parse, (xor_data, next_body): body split after its first 0x00
split_xor_data(body) ==
    LET m == memchr(0, body)
    IN  IF m.is_some THEN <<Take(body, m.value + 1), Drop(body, m.value + 1)>>
        ELSE <<body, <<>>>>

\* Patch::parse, the block loop over `body`
RECURSIVE parse_blocks(_, _)
parse_blocks(body, blocks) ==
    IF body = <<>> THEN blocks
    ELSE LET r == read_bytes(body)
         IN  IF ~r.value.is_some THEN blocks
             ELSE LET split == split_xor_data(r.buf)
                  IN  parse_blocks(split[2],
                                   Append(blocks, Block(r.value.value, split[1])))

\* the patch checksum taken over the whole input
checksummed_bytes_whole(bytes) == bytes

\* Patch::parse, the bytes the patch checksum covers: &input[..input.len() - 4]
checksummed_bytes(bytes) == Take(bytes, Len(bytes) - 4)

\* Variant: room for one checksum is enough.
checksums_missing_below_4(rest) == Len(rest) < 4

\* Patch::parse, `input.len() < 12`
checksums_missing(rest) == Len(rest) < 12

\* Patch::parse; Panic when input.len() - 4 or input.len() - 12 would go
\* below zero
Patch_parse(bytes) ==
    IF ~starts_with(bytes, MAGIC)
    THEN [tag |-> "FormatMismatch", msg |-> "invalid preamble",
          found |-> Take(bytes, Min(4, Len(bytes)))]
    ELSE IF Len(bytes) < 4 THEN Panic
    ELSE
    LET actual_patch_checksum == from_bytes(checksummed_bytes(bytes))
        r1 == read_bytes(Drop(bytes, 4))
        r2 == read_bytes(r1.buf)
        rest == r2.buf
    IN  IF ~r1.value.is_some THEN FormatMismatch("error reading source file size")
        ELSE IF ~r2.value.is_some THEN FormatMismatch("error reading dest file size")
        ELSE IF checksums_missing(rest) THEN FormatMismatch("failed to read checksums")
        ELSE IF Len(rest) < 12 THEN Panic
        ELSE
        LET body == Take(rest, Len(rest) - 12)
            checksums == Drop(rest, Len(rest) - 12)
            blocks == parse_blocks(body, <<>>)
            c1 == read_checksum(checksums)
            c2 == read_checksum(c1.buf)
            c3 == read_checksum(c2.buf)
        IN  IF ~c1.value.is_some \/ ~c2.value.is_some \/ ~c3.value.is_some
            THEN FormatMismatch("Unexpected EOF while reading file")
            ELSE
            LET parsed_patch == [blocks |-> blocks,
                                 src_size |-> r1.value.value,
                                 src_checksum |-> c1.value.value,
                                 dst_size |-> r2.value.value,
                                 dst_checksum |-> c2.value.value]
                patch_checksum == c3.value.value
            IN  IF actual_patch_checksum # patch_checksum
                THEN PatchChecksumMismatch(parsed_patch, patch_checksum,
                                           actual_patch_checksum)
                ELSE ParseOk(parsed_patch)

\* Patch::serialize, the loop over self.blocks
RECURSIVE serialize_blocks(_, _)
serialize_blocks(bytes, blocks) ==
    IF blocks = <<>> THEN bytes
    ELSE serialize_blocks(write_bytes(bytes, Head(blocks).offset) \o Head(blocks).xor_data,
                          Tail(blocks))

\* Patch::serialize
Patch_serialize(self) ==
    LET b1 == write_bytes(MAGIC, self.src_size)
        b2 == write_bytes(b1, self.dst_size)
        b3 == serialize_blocks(b2, self.blocks)
        b4 == b3 \o to_le_bytes(self.src_checksum)
        b5 == b4 \o to_le_bytes(self.dst_checksum)
        patch_checksum == from_bytes(b5)
    IN  b5 \o to_le_bytes(patch_checksum)

\* Variant: the appended 0 is not accounted for.
next_prev_end_without_zero(diff_range) == diff_range.end

\* Patch::diff, "prev_end needs to account for the appended 0."
next_prev_end(diff_range) == diff_range.end + 1

\* Patch::diff, the loop over SliceDiffs::new(src, dst):
\* [blocks, prev_end, aborted], aborted when the assertion on xor_data fails
\* or diff_range.start - prev_end goes below zero.
RECURSIVE diff_shared(_, _, _, _, _)
diff_shared(s, d, it, blocks, prev_end) ==
    LET n == SliceDiffs_next(it)
    IN  IF ~n.item.is_some
        THEN [blocks |-> blocks, prev_end |-> prev_end, aborted |-> FALSE]
        ELSE LET diff_range == n.item.value
                 xor_data == [i \in 1..(diff_range.end - diff_range.start) |->
                                 BitXor(s[diff_range.start + i], d[diff_range.start + i])]
             IN  IF diff_range.start < prev_end \/ memchr(0, xor_data).is_some
                 THEN [blocks |-> blocks, prev_end |-> prev_end, aborted |-> TRUE]
                 ELSE diff_shared(s, d, n.it,
                                  Append(blocks, Block(diff_range.start - prev_end,
                                                       Append(xor_data, 0))),
                                  next_prev_end(diff_range))

\* Variant: no leftover block is emitted.
diff_leftover_dropped(pending_data, blocks) == blocks

\* Patch::diff, the leftover loop over pending_data
RECURSIVE diff_leftover(_, _)
diff_leftover(pending_data, blocks) ==
    IF pending_data = <<>> THEN blocks
    ELSE LET p == position_nonzero(pending_data)
         IN  IF ~p.is_some THEN blocks
             ELSE LET offset == p.value
                      pending == Drop(pending_data, offset)
                      m == memchr(0, pending)
                      split_pos == IF m.is_some THEN m.value + 1 ELSE Len(pending)
                  IN  diff_leftover(Drop(pending, split_pos),
                                    Append(blocks, Block(offset, Take(pending, split_pos))))

\* Variant: the last block is left as it is.
diff_terminate_last_skipped(blocks) == blocks

\* Patch::diff, "Last block may be missing a trailing 0."
diff_terminate_last(blocks) ==
    IF blocks = <<>> THEN blocks
    ELSE LET xor_data == blocks[Len(blocks)].xor_data
         IN  IF xor_data # <<>> /\ xor_data[Len(xor_data)] = 0
             THEN blocks
             ELSE [blocks EXCEPT ![Len(blocks)].xor_data = Append(@, 0)]

\* Patch::diff, everything after the SliceDiffs loop: [blocks, aborted]
diff_tail(s, d, shared) ==
    LET min_len == IF Len(s) < Len(d) THEN Len(s) ELSE Len(d)
        max_slice == IF Len(s) < Len(d) THEN d ELSE s
        prev_end == shared.prev_end
        pending0 == Drop(max_slice, min_len)
        m == memchr(0, pending0)
        split_pos == IF m.is_some THEN m.value ELSE Len(pending0)
        last_block_data == Take(pending0, split_pos)
        next_pending == Drop(pending0, split_pos)
        pending_data == IF next_pending = <<>> THEN <<>> ELSE Tail(next_pending)
        merge == prev_end = min_len + 1
        underflow == ~merge /\ last_block_data # <<>> /\ min_len < prev_end
        blocks1 ==
            IF merge
            THEN IF shared.blocks # <<>>
                 THEN [shared.blocks EXCEPT ![Len(shared.blocks)].xor_data =
                          Append(Take(@, Len(@) - 1) \o last_block_data, 0)]
                 ELSE shared.blocks
            ELSE IF last_block_data # <<>>
            THEN Append(shared.blocks,
                        Block(min_len - prev_end, Append(last_block_data, 0)))
            ELSE shared.blocks
        blocks2 == diff_leftover(pending_data, blocks1)
        blocks3 == diff_terminate_last(blocks2)
    IN  [blocks |-> IF underflow THEN shared.blocks ELSE blocks3,
         aborted |-> underflow]

\* Patch::diff: the Patch, or Panic when the function aborts
Patch_diff(s, d) ==
    LET shared == diff_shared(s, d, SliceDiffs_new(s, d), <<>>, 0)
        tail == diff_tail(s, d, shared)
    IN  IF shared.aborted \/ tail.aborted THEN Panic
        ELSE [blocks |-> tail.blocks,
              src_size |-> Len(s),
              src_checksum |-> from_bytes(s),
              dst_size |-> Len(d),
              dst_checksum |-> from_bytes(d)]

\* Variant: the bytes of xor_data are stored, not XORed in.
xor_block_assign(output, pos, xor_data) ==
    [i \in 1..Len(output) |->
        IF i > pos /\ i <= pos + Min(Len(output) - pos, Len(xor_data))
        THEN xor_data[i - pos]
        ELSE output[i]]

\* Patch::patch, the loop over output_ptr.iter_mut().zip(&block.xor_data),
\* output_ptr being output[pos..]
xor_block(output, pos, xor_data) ==
    [i \in 1..Len(output) |->
        IF i > pos /\ i <= pos + Min(Len(output) - pos, Len(xor_data))
        THEN BitXor(output[i], xor_data[i - pos])
        ELSE output[i]]

\* Variant: the length of xor_data is never checked.
xor_data_overruns_never(xor_data, remaining) == FALSE

\* Patch::patch, `block.xor_data.len() >= output_ptr.len()`
xor_data_overruns(xor_data, remaining) == Len(xor_data) >= remaining

\* What the loop did with one block: where output_ptr started once the
\* offset was skipped, how many bytes were XORed, where output_ptr starts
\* afterwards, and which `break` was taken.
Step(start, written, next, stop) ==
    [start |-> start, written |-> written, next |-> next, stop |-> stop]

\* Variant: a block whose offset overruns is skipped and the loop goes on.
RECURSIVE patch_blocks_continue(_, _, _, _)
patch_blocks_continue(output, pos, blocks, steps) ==
    IF blocks = <<>> THEN [output |-> output, steps |-> steps]
    ELSE LET block == Head(blocks)
         IN  IF block.offset >= Len(output) - pos
             THEN patch_blocks_continue(output, pos, Tail(blocks),
                                        Append(steps, Step(pos, 0, pos, "offset")))
             ELSE LET pos1 == pos + block.offset
                      output1 == xor_block(output, pos1, block.xor_data)
                      written == Min(Len(output) - pos1, Len(block.xor_data))
                  IN  IF xor_data_overruns(block.xor_data, Len(output) - pos1)
                      THEN [output |-> output1,
                            steps |-> Append(steps, Step(pos1, written, pos1, "xor_data"))]
                      ELSE patch_blocks_continue(
                               output1, pos1 + Len(block.xor_data), Tail(blocks),
                               Append(steps, Step(pos1, written,
                                                  pos1 + Len(block.xor_data), "no")))

\* Patch::patch, the loop over self.blocks; output_ptr is output[pos..].
\* [output, steps]: the buffer afterwards and one Step for every block the
\* loop reached.
RECURSIVE patch_blocks(_, _, _, _)
patch_blocks(output, pos, blocks, steps) ==
    IF blocks = <<>> THEN [output |-> output, steps |-> steps]
    ELSE LET block == Head(blocks)
         IN  IF block.offset >= Len(output) - pos
             THEN [output |-> output,
                   steps |-> Append(steps, Step(pos, 0, pos, "offset"))]
             ELSE LET pos1 == pos + block.offset
                      output1 == xor_block(output, pos1, block.xor_data)
                      written == Min(Len(output) - pos1, Len(block.xor_data))
                  IN  IF xor_data_overruns(block.xor_data, Len(output) - pos1)
                      THEN [output |-> output1,
                            steps |-> Append(steps, Step(pos1, written, pos1, "xor_data"))]
                      ELSE patch_blocks(output1, pos1 + Len(block.xor_data), Tail(blocks),
                                        Append(steps, Step(pos1, written,
                                                           pos1 + Len(block.xor_data), "no")))

\* Patch::patch, `vec![0; metadata.output_size]` with the first
\* input_copy_len bytes of the input copied in
patch_seed(metadata, in) ==
    [i \in 1..metadata.output_size |->
        IF i <= Min(metadata.output_size, metadata.input_size) THEN in[i] ELSE 0]

\* the input checks with the checksum check skipped once the size check failed
input_errors_short_circuit(dir, metadata, in) ==
    LET e1 == MetadataMismatch_size(metadata.input_size, Len(in))
        e2 == MetadataMismatch_checksum(metadata.input_checksum, from_bytes(in))
    IN  IF e1.is_some THEN <<input_metadata_error(dir, e1.value)>>
        ELSE IF e2.is_some THEN <<input_metadata_error(dir, e2.value)>>
        ELSE <<>>

\* Patch::patch, the checks on the input: `errors` after them
input_errors(dir, metadata, in) ==
    LET e1 == MetadataMismatch_size(metadata.input_size, Len(in))
        errors1 == IF e1.is_some THEN <<input_metadata_error(dir, e1.value)>> ELSE <<>>
        input_checksum == from_bytes(in)
        e2 == MetadataMismatch_checksum(metadata.input_checksum, input_checksum)
    IN  IF e2.is_some THEN Append(errors1, input_metadata_error(dir, e2.value))
        ELSE errors1

\* Patch::patch: Ok(output), Err(UpsPatchErrors), or Panic when the slice
\* &input[..input_copy_len] is out of range
Patch_patch(self, dir, in) ==
    LET metadata == PatchDirection_metadata(dir, self)
        errors2 == input_errors(dir, metadata, in)
        input_copy_len == Min(metadata.output_size, metadata.input_size)
    IN  IF input_copy_len > Len(in) THEN Panic
        ELSE
        LET output0 == patch_seed(metadata, in)
            output == patch_blocks(output0, 0, self.blocks, <<>>).output
            output_checksum == from_bytes(output)
            e3 == MetadataMismatch_checksum(metadata.output_checksum, output_checksum)
            errors3 == IF e3.is_some
                       THEN Append(errors2, output_metadata_error(dir, e3.value))
                       ELSE errors2
        IN  check_errors(output, errors3)

\* Patch::patch, the steps of its loop over the blocks; none when it aborts
\* before the loop
patch_steps(self, dir, in) ==
    LET metadata == PatchDirection_metadata(dir, self)
    IN  IF Min(metadata.output_size, metadata.input_size) > Len(in) THEN <<>>
        ELSE patch_blocks(patch_seed(metadata, in), 0, self.blocks, <<>>).steps

\* Patch::apply
Patch_apply(self, s) == Patch_patch(self, "Apply", s)

\* Variant: revert runs the patch in the Apply direction.
Patch_revert_as_apply(self, d) == Patch_patch(self, "Apply", d)

\* Patch::revert
Patch_revert(self, d) == Patch_patch(self, "Revert", d)

-----------------------------------------------------------------------------
(* Scenario: varint round trip and decoding of raw streams *)

Unused == <<>>

RECURSIVE SeqsUpTo(_, _)
SeqsUpTo(S, n) ==
    IF n = 0 THEN {<<>>}
    ELSE LET shorter == SeqsUpTo(S, n - 1)
         IN  shorter \cup {Append(s, x) : s \in {t \in shorter : Len(t) = n - 1}, x \in S}

\* Bytes a raw varint stream is made of: payloads 0, 1, 2, 4 and 127, with and
\* without the terminating bit.
StreamBytes == {0, 1, 127, 128, 129, 130, 132, 255}

InitVarint ==
    /\ \/ /\ pc = "value"
          /\ varint \in 0..UsizeMax
          /\ buf = <<>>
       \/ /\ pc = "stream"
          /\ varint = 0
          /\ buf \in SeqsUpTo(StreamBytes, MaxStream)
    /\ decoded = Unused
    /\ src = Unused /\ dst = Unused /\ patch = Unused /\ direction = Unused
    /\ input = Unused /\ result = Unused /\ serialized = Unused
    /\ overwrite = Unused /\ parsed = Unused
    /\ runs = Unused /\ iter = Unused /\ ranges = Unused /\ roundtrip = Unused
    /\ given_errors = Unused /\ given_output = Unused /\ walk = Unused

WriteBytes ==
    /\ pc = "value"
    /\ buf' = write_bytes(<<>>, varint)
    /\ pc' = "written"
    /\ UNCHANGED <<varint, decoded, src, dst, patch, direction, input, result,
                   serialized, overwrite, parsed,
                   runs, iter, ranges, roundtrip,
                   given_errors, given_output, walk>>

ReadWritten ==
    /\ pc = "written"
    /\ decoded' = read_bytes(buf)
    /\ pc' = "roundtrip"
    /\ UNCHANGED <<varint, buf, src, dst, patch, direction, input, result,
                   serialized, overwrite, parsed,
                   runs, iter, ranges, roundtrip,
                   given_errors, given_output, walk>>

ReadStream ==
    /\ pc = "stream"
    /\ decoded' = read_bytes(buf)
    /\ pc' = "read"
    /\ UNCHANGED <<varint, buf, src, dst, patch, direction, input, result,
                   serialized, overwrite, parsed,
                   runs, iter, ranges, roundtrip,
                   given_errors, given_output, walk>>

NextVarint == WriteBytes \/ ReadWritten \/ ReadStream

SpecVarint == InitVarint /\ [][NextVarint]_vars

-----------------------------------------------------------------------------
(* Scenario: diff two files, then apply the patch to src or revert it on dst *)

\* Bytes the files are made of: 0x00, 'A' and 'B'.
FileBytes == {0, 65, 66}

InitDiff ==
    /\ pc = "files"
    /\ src \in SeqsUpTo(FileBytes, MaxLen)
    /\ dst \in SeqsUpTo(FileBytes, MaxLen)
    /\ patch = Unused /\ direction = Unused /\ input = Unused /\ result = Unused
    /\ varint = Unused /\ buf = Unused /\ decoded = Unused
    /\ serialized = Unused /\ overwrite = Unused /\ parsed = Unused
    /\ runs = Unused /\ iter = Unused /\ ranges = Unused /\ roundtrip = Unused
    /\ given_errors = Unused /\ given_output = Unused /\ walk = Unused

Diff ==
    /\ pc = "files"
    /\ patch' = Patch_diff(src, dst)
    /\ pc' = "diffed"
    /\ UNCHANGED <<varint, buf, decoded, src, dst, direction, input, result,
                   serialized, overwrite, parsed,
                   runs, iter, ranges, roundtrip,
                   given_errors, given_output, walk>>

Apply ==
    /\ pc = "diffed"
    /\ patch # Panic
    /\ direction' = "Apply"
    /\ input' = src
    /\ result' = Patch_apply(patch, src)
    /\ pc' = "applied"
    /\ UNCHANGED <<varint, buf, decoded, src, dst, patch, serialized, overwrite, parsed,
                   runs, iter, ranges, roundtrip,
                   given_errors, given_output, walk>>

Revert ==
    /\ pc = "diffed"
    /\ patch # Panic
    /\ direction' = "Revert"
    /\ input' = dst
    /\ result' = Patch_revert(patch, dst)
    /\ pc' = "reverted"
    /\ UNCHANGED <<varint, buf, decoded, src, dst, patch, serialized, overwrite, parsed,
                   runs, iter, ranges, roundtrip,
                   given_errors, given_output, walk>>

NextDiff == Diff \/ Apply \/ Revert

SpecDiff == InitDiff /\ [][NextDiff]_vars

-----------------------------------------------------------------------------
(* Scenario: diff an empty source against a destination made of runs, each *)
(* one or more non-zero bytes followed by 0x00                             *)

RunBytes == {65, 66}
RunLens == {1, 2}
\* xor_data(): non-zero bytes with a 0x00 pushed at the end
XorDataRuns == {Append(v, 0) : v \in {w \in SeqsUpTo(RunBytes, 2) : Len(w) \in RunLens}}

\* blocks.iter().flatten()
RECURSIVE Flatten(_)
Flatten(ss) == IF ss = <<>> THEN <<>> ELSE Head(ss) \o Flatten(Tail(ss))

InitRuns ==
    /\ pc = "files"
    /\ runs \in SeqsUpTo(XorDataRuns, MaxRuns)
    /\ src = <<>>
    /\ dst = Flatten(runs)
    /\ patch = Unused /\ direction = Unused /\ input = Unused /\ result = Unused
    /\ varint = Unused /\ buf = Unused /\ decoded = Unused
    /\ serialized = Unused /\ overwrite = Unused /\ parsed = Unused
    /\ iter = Unused /\ ranges = Unused /\ roundtrip = Unused
    /\ given_errors = Unused /\ given_output = Unused /\ walk = Unused

NextRuns == Diff

SpecRuns == InitRuns /\ [][NextRuns]_vars

-----------------------------------------------------------------------------
(* Scenario: diff two files of which one goes on after a short shared part *)

InitTail ==
    /\ pc = "files"
    /\ \E s \in SeqsUpTo(FileBytes, 1), d \in SeqsUpTo(FileBytes, 1),
          tail \in SeqsUpTo(FileBytes, MaxTail) :
          /\ Len(s) = Len(d)
          /\ \/ src = s /\ dst = d \o tail
             \/ src = s \o tail /\ dst = d
    /\ patch = Unused /\ direction = Unused /\ input = Unused /\ result = Unused
    /\ varint = Unused /\ buf = Unused /\ decoded = Unused
    /\ serialized = Unused /\ overwrite = Unused /\ parsed = Unused
    /\ runs = Unused /\ iter = Unused /\ ranges = Unused /\ roundtrip = Unused
    /\ given_errors = Unused /\ given_output = Unused /\ walk = Unused

SpecTail == InitTail /\ [][NextDiff]_vars

-----------------------------------------------------------------------------
(* Scenario: iterate SliceDiffs::new(src, dst) until it is exhausted *)

InitSliceDiffs ==
    /\ pc = "iterating"
    /\ src \in SeqsUpTo(FileBytes, MaxLen)
    /\ dst \in SeqsUpTo(FileBytes, MaxLen)
    /\ iter = SliceDiffs_new(src, dst)
    /\ ranges = <<>>
    /\ patch = Unused /\ direction = Unused /\ input = Unused /\ result = Unused
    /\ varint = Unused /\ buf = Unused /\ decoded = Unused
    /\ serialized = Unused /\ overwrite = Unused /\ parsed = Unused
    /\ runs = Unused /\ roundtrip = Unused
    /\ given_errors = Unused /\ given_output = Unused /\ walk = Unused

\* One call of Iterator::next, as the `for` loop makes it.
SliceDiffsNext ==
    /\ pc = "iterating"
    /\ LET n == SliceDiffs_next(iter)
       IN  /\ iter' = n.it
           /\ ranges' = IF n.item.is_some THEN Append(ranges, n.item.value) ELSE ranges
           /\ pc' = IF n.item.is_some THEN "iterating" ELSE "exhausted"
    /\ UNCHANGED <<varint, buf, decoded, src, dst, patch, direction, input, result,
                   serialized, overwrite, parsed, runs, roundtrip,
                   given_errors, given_output, walk>>

NextSliceDiffs == SliceDiffsNext

SpecSliceDiffs == InitSliceDiffs /\ [][NextSliceDiffs]_vars

-----------------------------------------------------------------------------
(* Scenario: Patch::patch on a patch built field by field *)

PatchOffsets == {0, 1}
PatchXorData == {<<1, 0>>, <<1>>}
PatchSizes == {0, 1, 2}
\* The checksums a patch may claim: those of the buffers of at most one byte.
PatchChecksums == {from_bytes(b) : b \in SeqsUpTo({0, 1}, 1)}

InitPatch ==
    /\ pc = "patch"
    /\ patch \in [blocks : SeqsUpTo({Block(o, x) : o \in PatchOffsets, x \in PatchXorData},
                                    MaxBlocks),
                  src_size : PatchSizes,
                  src_checksum : PatchChecksums,
                  dst_size : PatchSizes,
                  dst_checksum : PatchChecksums]
    /\ direction \in {"Apply", "Revert"}
    /\ input \in SeqsUpTo({0, 1}, MaxInput)
    /\ result = Unused
    /\ src = Unused /\ dst = Unused
    /\ varint = Unused /\ buf = Unused /\ decoded = Unused
    /\ serialized = Unused /\ overwrite = Unused /\ parsed = Unused
    /\ runs = Unused /\ iter = Unused /\ ranges = Unused /\ roundtrip = Unused
    /\ given_errors = Unused /\ given_output = Unused /\ walk = Unused

DoPatch ==
    /\ pc = "patch"
    /\ result' = Patch_patch(patch, direction, input)
    /\ walk' = patch_steps(patch, direction, input)
    /\ pc' = "patched"
    /\ UNCHANGED <<varint, buf, decoded, src, dst, patch, direction, input,
                   serialized, overwrite, parsed,
                   runs, iter, ranges, roundtrip,
                   given_errors, given_output>>

\* tests/test_apply.rs, test_roundtrip: patch.revert(&patched) on the output
\* of an apply that returned Ok
RevertOutput ==
    /\ pc = "patched"
    /\ direction = "Apply"
    /\ result.tag = "Ok"
    /\ roundtrip' = Patch_revert(patch, result.output)
    /\ pc' = "apply_reverted"
    /\ UNCHANGED <<varint, buf, decoded, src, dst, patch, direction, input, result,
                   serialized, overwrite, parsed, runs, iter, ranges,
                   given_errors, given_output, walk>>

NextPatch == DoPatch \/ RevertOutput

SpecPatch == InitPatch /\ [][NextPatch]_vars

-----------------------------------------------------------------------------
(* Scenario: serialize a patch, possibly overwrite part of the bytes, parse; *)
(* or parse raw bytes                                                        *)

CodecOffsets == {0, UsizeMax}
\* xor_data: zero-terminated runs, and runs that are empty, unterminated or
\* hold an embedded 0x00.
CodecXorData == {<<0>>, <<65, 66, 0>>, <<>>, <<65>>, <<0, 65, 0>>}
CodecChecksums == {Checksum(0, 0), Checksum(0, 31)}
InvalidMagics == {<<85, 80, 83, 50>>, <<0, 0, 0, 0>>, <<80, 85, 83, 49>>}
RawBytes == {85, 80, 83, 49, 128}

InitCodec ==
    /\ \/ /\ pc = "patch"
          /\ patch \in [blocks : SeqsUpTo({Block(o, x) : o \in CodecOffsets,
                                                         x \in CodecXorData}, MaxBlocks),
                        src_size : {0, 130},
                        src_checksum : CodecChecksums,
                        dst_size : {1, UsizeMax},
                        dst_checksum : CodecChecksums]
          /\ serialized = <<>>
          /\ overwrite = [what |-> "none"]
       \/ /\ pc = "raw"
          /\ patch = Unused
          /\ serialized \in SeqsUpTo(RawBytes, MaxRaw)
          /\ overwrite = [what |-> "raw"]
    /\ parsed = Unused
    /\ runs = Unused /\ iter = Unused /\ ranges = Unused /\ roundtrip = Unused
    /\ given_errors = Unused /\ given_output = Unused /\ walk = Unused
    /\ src = Unused /\ dst = Unused /\ direction = Unused /\ input = Unused
    /\ result = Unused /\ varint = Unused /\ buf = Unused /\ decoded = Unused

Serialize ==
    /\ pc = "patch"
    /\ serialized' = Patch_serialize(patch)
    /\ pc' = "serialized"
    /\ UNCHANGED <<varint, buf, decoded, src, dst, patch, direction, input, result,
                   overwrite, parsed,
                   runs, iter, ranges, roundtrip,
                   given_errors, given_output, walk>>

\* test_patch_invalid_magic: serialized[..4].copy_from_slice(&magic)
OverwriteMagic ==
    /\ pc = "serialized"
    /\ \E magic \in InvalidMagics :
          /\ serialized' = magic \o Drop(serialized, 4)
          /\ overwrite' = [what |-> "magic", magic |-> magic]
    /\ pc' = "overwritten"
    /\ UNCHANGED <<varint, buf, decoded, src, dst, patch, direction, input, result,
                   parsed,
                   runs, iter, ranges, roundtrip,
                   given_errors, given_output, walk>>

\* test_patch_checksum_err: serialized[offset..].copy_from_slice(&checksum.0.to_le_bytes())
OverwriteChecksum ==
    /\ pc = "serialized"
    /\ LET offset == Len(serialized) - 4
           real_checksum == from_le_bytes(Drop(serialized, offset))
       IN  \E checksum \in CodecChecksums \cup {real_checksum} :
              /\ serialized' = Take(serialized, offset) \o to_le_bytes(checksum)
              /\ overwrite' = [what |-> "checksum", checksum |-> checksum,
                               real_checksum |-> real_checksum]
    /\ pc' = "overwritten"
    /\ UNCHANGED <<varint, buf, decoded, src, dst, patch, direction, input, result,
                   parsed,
                   runs, iter, ranges, roundtrip,
                   given_errors, given_output, walk>>

Parse ==
    /\ pc \in {"serialized", "overwritten", "raw"}
    /\ parsed' = Patch_parse(serialized)
    /\ pc' = "parsed"
    /\ UNCHANGED <<varint, buf, decoded, src, dst, patch, direction, input, result,
                   serialized, overwrite,
                   runs, iter, ranges, roundtrip,
                   given_errors, given_output, walk>>

NextCodec == Serialize \/ OverwriteMagic \/ OverwriteChecksum \/ Parse

SpecCodec == InitCodec /\ [][NextCodec]_vars

-----------------------------------------------------------------------------
(* Scenario: UpsPatchErrors::check_errors on a list of errors *)

\* A size mismatch and a checksum mismatch of the source, a checksum mismatch
\* of the destination.
ErrorChoices ==
    {input_metadata_error("Apply", MetadataMismatch_size(1, 2).value),
     input_metadata_error("Apply",
         MetadataMismatch_checksum(Checksum(0, 0), Checksum(0, 1)).value),
     output_metadata_error("Apply",
         MetadataMismatch_checksum(Checksum(0, 2), Checksum(0, 3)).value)}

InitErrors ==
    /\ pc = "errors"
    /\ given_errors \in SeqsUpTo(ErrorChoices, MaxErrors)
    /\ given_output \in SeqsUpTo({0, 1}, 1)
    /\ result = Unused
    /\ patch = Unused /\ direction = Unused /\ input = Unused
    /\ src = Unused /\ dst = Unused
    /\ varint = Unused /\ buf = Unused /\ decoded = Unused
    /\ serialized = Unused /\ overwrite = Unused /\ parsed = Unused
    /\ runs = Unused /\ iter = Unused /\ ranges = Unused /\ roundtrip = Unused
    /\ walk = Unused

CheckErrors ==
    /\ pc = "errors"
    /\ result' = check_errors(given_output, given_errors)
    /\ pc' = "checked"
    /\ UNCHANGED <<varint, buf, decoded, src, dst, patch, direction, input,
                   serialized, overwrite, parsed, runs, iter, ranges, roundtrip,
                   given_errors, given_output, walk>>

NextErrors == CheckErrors

SpecErrors == InitErrors /\ [][NextErrors]_vars

-----------------------------------------------------------------------------
(* Scenario: parse a file put together byte by byte: the magic, the bytes *)
(* where the two sizes are read, a block body, padding and four last bytes *)

\* A terminated varint whose last contribution does not fit a usize:
\* 0x00 bytes until fewer than seven bits are left, then a payload with the
\* bit one past the width set.
OverflowVarint ==
    LET zeros == (UsizeBits - 1) \div 7
    IN  [i \in 1..zeros |-> 0] \o <<128 + Pow2(UsizeBits - 7 * zeros)>>

\* Bytes after the magic: both sizes 0; nothing; an unterminated varint; one
\* size only; one size and an unterminated varint; a varint of too many
\* bytes; a varint that overflows in its last byte, then size 0.
CraftedSizes ==
    {<<128, 128>>, <<>>, <<0>>, <<128>>, <<128, 0>>, <<0, 0, 0, 0, 0, 128>>,
     OverflowVarint \o <<128>>}

\* Block bodies: none; an unterminated offset; one block; one block, then an
\* unterminated offset; a block without its 0x00; an offset and nothing else.
CraftedBodies ==
    {<<>>, <<1>>, <<128, 65, 0>>, <<128, 65, 0, 1>>, <<128, 65>>, <<128>>}

\* 0x00 bytes put after the body: with the four last bytes they make 12 bytes
\* of checksums, 11 bytes, or 4.
CraftedPadding == {[i \in 1..n |-> 0] : n \in {8, 7, 0}}

InitParse ==
    /\ pc = "raw"
    /\ \/ \E sizes \in CraftedSizes, body \in CraftedBodies, padding \in CraftedPadding :
             LET content == MAGIC \o sizes \o body \o padding
             IN  \/ /\ serialized = content \o to_le_bytes(from_bytes(content))
                    /\ overwrite = [what |-> "crafted", last |-> "checksum"]
                 \/ /\ serialized = content \o <<0, 0, 0, 0>>
                    /\ overwrite = [what |-> "crafted", last |-> "zeros"]
                 \/ /\ serialized = content
                    /\ overwrite = [what |-> "crafted", last |-> "none"]
       \/ /\ serialized \in SeqsUpTo(RawBytes, MaxRaw)
          /\ overwrite = [what |-> "raw"]
    /\ patch = Unused /\ parsed = Unused
    /\ src = Unused /\ dst = Unused /\ direction = Unused /\ input = Unused
    /\ result = Unused /\ varint = Unused /\ buf = Unused /\ decoded = Unused
    /\ runs = Unused /\ iter = Unused /\ ranges = Unused /\ roundtrip = Unused
    /\ given_errors = Unused /\ given_output = Unused /\ walk = Unused

NextParse == Parse

SpecParse == InitParse /\ [][NextParse]_vars

-----------------------------------------------------------------------------
(* Properties *)

Ok(output) == [tag |-> "Ok", output |-> output]

\* C1: for all byte buffers src and dst, Patch::diff(src, dst).apply(src)
\* returns Ok(out) with out == dst.
C1_DiffApplyGivesDst == pc = "applied" => result = Ok(dst)

\* C2: for all byte buffers src and dst, Patch::diff(src, dst).revert(dst)
\* returns Ok(out) with out == src.
C2_DiffRevertGivesSrc == pc = "reverted" => result = Ok(src)

\* C4: decoding the bytes written by write_bytes(v) with read_bytes returns
\* Some(v), consuming exactly those bytes, for every usize v.
C4_VarintRoundTrip ==
    pc = "roundtrip" => decoded = [value |-> Some(varint), buf |-> <<>>]

\* The largest usize, written on three bytes or more, has been read back.
C4_Witness ==
    /\ pc = "roundtrip"
    /\ varint = UsizeMax
    /\ Len(buf) >= 3
    /\ decoded.value = Some(UsizeMax)

\* The value a stream accumulates without any width: the sum of the shifted
\* contributions of the bytes up to the terminating one, capped at
\* UsizeMax + 1; -1 when the stream ends before a terminating byte.
RECURSIVE Accumulated(_, _, _)
Accumulated(stream, shift, sum) ==
    IF stream = <<>> THEN -1
    ELSE LET c == Head(stream)
             last == c >= 128
             x == IF last THEN c - 128 ELSE c + 128
             term == IF x = 0 THEN 0
                     ELSE IF shift > UsizeBits THEN UsizeMax + 1
                     ELSE Min(x * Pow2(shift), UsizeMax + 1)
             total == Min(sum + term, UsizeMax + 1)
         IN  IF last THEN total ELSE
             LET rest == Accumulated(Tail(stream), shift + 7, total)
             IN  IF rest = -1 THEN -1 ELSE rest

\* C5: read_bytes returns None for every byte stream whose accumulated value
\* exceeds the largest usize.
C5_OverflowIsNone ==
    pc = "read" /\ Accumulated(buf, 0, 0) > UsizeMax => decoded.value = None

\* A block whose xor_data is non-empty and holds 0x00 as its final byte only.
ZeroTerminated(block) ==
    /\ block.xor_data # <<>>
    /\ \A i \in 1..Len(block.xor_data) :
          (block.xor_data[i] = 0) <=> (i = Len(block.xor_data))

AllZeroTerminated(p) == \A i \in 1..Len(p.blocks) : ZeroTerminated(p.blocks[i])

\* C3: for every Patch p whose blocks are all zero-terminated,
\* Patch::parse(p.serialize()) returns Ok(q) with q == p.
C3_ParseSerializeRoundTrip ==
    pc = "parsed" /\ overwrite.what = "none" /\ AllZeroTerminated(patch)
        => parsed = [tag |-> "Ok", parsed_patch |-> patch]

\* A patch of two zero-terminated blocks, one at the largest offset, came back.
C3_Witness ==
    /\ pc = "parsed"
    /\ overwrite.what = "none"
    /\ Len(patch.blocks) = 2
    /\ AllZeroTerminated(patch)
    /\ patch.blocks[1].offset = UsizeMax
    /\ Len(patch.blocks[2].xor_data) > 1
    /\ parsed.tag = "Ok"
    /\ parsed.parsed_patch.blocks = patch.blocks

\* The errors a returned result reports, in iteration order.
Reported(r) == IF r.tag = "Err" THEN ErrorsIter(r) ELSE <<>>

ReportedSet(r) == {Reported(r)[i] : i \in 1..Len(Reported(r))}

IsSize(e) == DOMAIN e.mismatch = {"Size"}
IsChecksum(e) == DOMAIN e.mismatch = {"Checksum"}

\* C6: whenever Patch::patch returns, the errors it reports are exactly the
\* failing ones among the input size check, the input checksum check and the
\* output checksum check, each once, and the result is Ok iff none fails.
C6_ErrorsAreTheFailingChecks ==
    pc = "patched" /\ result.tag # "Panic" =>
        LET metadata == PatchDirection_metadata(direction, patch)
            size_error == input_metadata_error(direction,
                [Size |-> [expected |-> metadata.input_size, actual |-> Len(input)]])
            input_error == input_metadata_error(direction,
                [Checksum |-> [expected |-> metadata.input_checksum,
                               actual |-> from_bytes(input)]])
            output_error == output_metadata_error(direction,
                [Checksum |-> [expected |-> metadata.output_checksum,
                               actual |-> from_bytes(result.output)]])
            expected ==
                (IF Len(input) # metadata.input_size THEN {size_error} ELSE {})
                \cup (IF from_bytes(input) # metadata.input_checksum
                      THEN {input_error} ELSE {})
                \cup (IF from_bytes(result.output) # metadata.output_checksum
                      THEN {output_error} ELSE {})
        IN  /\ ReportedSet(result) = expected
            /\ Len(Reported(result)) = Cardinality(expected)
            /\ (result.tag = "Ok") <=> (expected = {})

\* All three checks failed on one call and all three were reported.
C6_Witness ==
    /\ pc = "patched"
    /\ result.tag = "Err"
    /\ Len(Reported(result)) = 3
    /\ Len(input) # PatchDirection_metadata(direction, patch).input_size

\* C7: Patch::patch never aborts: it returns Ok(output) or an error value
\* carrying the output buffer, whose length is output_size.
C7_PatchAlwaysReturns ==
    pc = "patched" =>
        /\ result.tag \in {"Ok", "Err"}
        /\ Len(result.output) = PatchDirection_metadata(direction, patch).output_size

\* C8: under Apply the input is checked against (src_size, src_checksum) with
\* errors tagged SourceMetadataMismatch and the output against dst_checksum,
\* with length dst_size and its error tagged DestMetadataMismatch; under
\* Revert the roles and the tags are swapped.
C8_DirectionRoles ==
    pc = "patched" /\ result.tag # "Panic" =>
        LET apply == direction = "Apply"
            in_size == IF apply THEN patch.src_size ELSE patch.dst_size
            in_sum == IF apply THEN patch.src_checksum ELSE patch.dst_checksum
            out_size == IF apply THEN patch.dst_size ELSE patch.src_size
            out_sum == IF apply THEN patch.dst_checksum ELSE patch.src_checksum
            in_tag == IF apply THEN "SourceMetadataMismatch" ELSE "DestMetadataMismatch"
            out_tag == IF apply THEN "DestMetadataMismatch" ELSE "SourceMetadataMismatch"
            errs == ReportedSet(result)
        IN  /\ Len(result.output) = out_size
            /\ \A e \in errs : IsSize(e) =>
                  /\ e.tag = in_tag
                  /\ e.mismatch.Size = [expected |-> in_size, actual |-> Len(input)]
            /\ (\E e \in errs : IsSize(e)) <=> (Len(input) # in_size)
            /\ \A e \in errs : IsChecksum(e) /\ e.tag = in_tag =>
                  e.mismatch.Checksum =
                      [expected |-> in_sum, actual |-> from_bytes(input)]
            /\ (\E e \in errs : IsChecksum(e) /\ e.tag = in_tag)
                  <=> (from_bytes(input) # in_sum)
            /\ \A e \in errs : IsChecksum(e) /\ e.tag = out_tag =>
                  e.mismatch.Checksum =
                      [expected |-> out_sum, actual |-> from_bytes(result.output)]
            /\ (\E e \in errs : IsChecksum(e) /\ e.tag = out_tag)
                  <=> (from_bytes(result.output) # out_sum)

\* A revert reported a size error on the destination side and a checksum
\* error on the source side.
C8_Witness ==
    /\ pc = "patched"
    /\ direction = "Revert"
    /\ result.tag = "Err"
    /\ patch.src_size # patch.dst_size
    /\ patch.src_checksum # patch.dst_checksum
    /\ \E e \in ReportedSet(result) : e.tag = "DestMetadataMismatch" /\ IsSize(e)
    /\ \E e \in ReportedSet(result) :
          e.tag = "SourceMetadataMismatch" /\ IsChecksum(e)

\* The bytes begin with "UPS1".
BeginsWithUPS1(s) ==
    Len(s) >= 4 /\ s[1] = 85 /\ s[2] = 80 /\ s[3] = 83 /\ s[4] = 49

\* C9: for every byte sequence that does not begin with "UPS1", Patch::parse
\* returns FormatMismatch.
C9_BadMagicIsFormatMismatch ==
    pc = "parsed" /\ ~BeginsWithUPS1(serialized) => parsed.tag = "FormatMismatch"

\* A serialized zero-terminated patch whose magic was overwritten was refused.
C9_Witness ==
    /\ pc = "parsed"
    /\ overwrite.what = "magic"
    /\ overwrite.magic = <<85, 80, 83, 50>>
    /\ AllZeroTerminated(patch)
    /\ Len(patch.blocks) > 0
    /\ parsed.tag = "FormatMismatch"

\* C10: parsing a serialized zero-terminated patch p whose trailing 4 bytes
\* were overwritten with c, different from the real patch checksum r, returns
\* PatchChecksumMismatch with parsed_patch == p, expected == c, actual == r;
\* and parse returns Ok only when the trailing 4 bytes are the CRC-32 of all
\* the bytes before them.
C10_PatchChecksumMismatch ==
    /\ pc = "parsed" /\ overwrite.what = "checksum" /\ AllZeroTerminated(patch)
          /\ overwrite.checksum # overwrite.real_checksum
        => parsed = [tag |-> "PatchChecksumMismatch", parsed_patch |-> patch,
                     expected |-> overwrite.checksum,
                     actual |-> overwrite.real_checksum]
    /\ pc = "parsed" /\ parsed.tag = "Ok"
        => /\ Len(serialized) >= 4
           /\ to_le_bytes(from_bytes(SubSeq(serialized, 1, Len(serialized) - 4)))
                 = SubSeq(serialized, Len(serialized) - 3, Len(serialized))

\* A patch with blocks whose checksum was overwritten with another value came
\* back inside PatchChecksumMismatch.
C10_Witness ==
    /\ pc = "parsed"
    /\ overwrite.what = "checksum"
    /\ overwrite.checksum # overwrite.real_checksum
    /\ AllZeroTerminated(patch)
    /\ Len(patch.blocks) > 0
    /\ parsed.tag = "PatchChecksumMismatch"
    /\ parsed.actual = overwrite.real_checksum

\* C11: for every byte buffer f, Patch::diff(f, f) has an empty block list.
C11_DiffOfEqualFilesIsEmpty ==
    pc = "diffed" /\ src = dst => patch # Panic /\ patch.blocks = <<>>

C11_Witness == pc = "diffed" /\ src = dst /\ Len(src) = MaxLen /\ patch # Panic

\* src and dst agree on their shared length and the rest of the longer one
\* is all 0x00.
AgreeUpToZeros(s, d) ==
    /\ \A i \in 1..Min(Len(s), Len(d)) : s[i] = d[i]
    /\ \A i \in (Len(d) + 1)..Len(s) : s[i] = 0
    /\ \A i \in (Len(s) + 1)..Len(d) : d[i] = 0

\* C12 as stated: Patch::diff(src, dst) has zero blocks exactly when
\* src = dst.
C12_ZeroBlocksIffEqual ==
    pc = "diffed" => patch # Panic /\ (patch.blocks = <<>> <=> src = dst)

\* C12, amended: Patch::diff(src, dst) has zero blocks exactly when src and
\* dst agree on their shared length and the rest of the longer buffer is all
\* 0x00 (src = dst included); every other pair gets at least one block.
C12_ZeroBlocksIffAgreeUpToZeros ==
    pc = "diffed" => patch # Panic /\ (patch.blocks = <<>> <=> AgreeUpToZeros(src, dst))

C12_Witness ==
    /\ pc = "diffed" /\ patch # Panic
    /\ src # dst /\ AgreeUpToZeros(src, dst)
    /\ patch.blocks = <<>>

\* C13: every block of Patch::diff(src, dst) has xor_data whose last byte is
\* 0x00.
C13_DiffBlocksEndInZero ==
    pc = "diffed" =>
        /\ patch # Panic
        /\ \A i \in 1..Len(patch.blocks) :
              /\ patch.blocks[i].xor_data # <<>>
              /\ patch.blocks[i].xor_data[Len(patch.blocks[i].xor_data)] = 0

\* The longer file ends in a non-zero byte that no 0x00 follows.
C13_Witness ==
    /\ pc = "diffed" /\ patch # Panic
    /\ Len(dst) > Len(src) + 1
    /\ dst[Len(src) + 1] = 0 /\ dst[Len(dst)] # 0
    /\ patch.blocks # <<>>

\* C14: for an empty src and a dst that is the concatenation of k >= 0 runs,
\* each one or more non-zero bytes followed by 0x00, the blocks of
\* Patch::diff(src, dst) are exactly those runs in order, each with offset 0.
C14_EmptySrcSplitsDstByZero ==
    pc = "diffed" =>
        /\ patch # Panic
        /\ patch.blocks = [i \in 1..Len(runs) |-> Block(0, runs[i])]

C14_Witness ==
    /\ pc = "diffed" /\ patch # Panic
    /\ Len(runs) >= 2 /\ Len(runs[1]) = 3
    /\ Len(patch.blocks) = Len(runs)

DifferingIndices == {i \in 0..(Min(Len(src), Len(dst)) - 1) : src[i + 1] # dst[i + 1]}

\* C18: the ranges yielded by SliceDiffs::new(src, dst) are non-empty
\* half-open ranges, strictly ascending and pairwise non-adjacent, and every
\* index inside one differs; once the iterator is exhausted they cover
\* exactly the differing indices below both lengths, so each is maximal.
C18_SliceDiffsAreTheMaximalDifferingRuns ==
    pc \in {"iterating", "exhausted"} =>
        /\ \A k \in 1..Len(ranges) :
              /\ ranges[k].start < ranges[k].end
              /\ \A i \in ranges[k].start..(ranges[k].end - 1) : i \in DifferingIndices
        /\ \A k \in 1..(Len(ranges) - 1) : ranges[k].end < ranges[k + 1].start
        /\ pc = "exhausted" =>
              \A i \in DifferingIndices :
                  \E k \in 1..Len(ranges) : ranges[k].start <= i /\ i < ranges[k].end

\* Two ranges with an equal byte between them, the second one ending where
\* the slices end.
C18_Witness ==
    /\ pc = "exhausted"
    /\ Len(ranges) = 2
    /\ ranges[2].end = Min(Len(src), Len(dst))

C17_WitnessGrow ==
    /\ pc = "apply_reverted"
    /\ patch.src_size < patch.dst_size
    /\ patch.blocks # <<>>
    /\ roundtrip = Ok(input)

\* A varint read without any width: ok when the stream holds a terminating
\* byte and the accumulated value fits a usize; rest is what follows the
\* terminating byte.
UnboundedRead(stream) ==
    LET last == {i \in 1..Len(stream) : stream[i] >= 128}
        n == IF last = {} THEN Len(stream)
             ELSE CHOOSE i \in last : \A j \in last : i <= j
    IN  [ok |-> Accumulated(stream, 0, 0) \in 0..UsizeMax, rest |-> Drop(stream, n)]

\* The block body of a file whose sizes can be read and that holds 12 more
\* bytes: what lies between the sizes and the last 12 bytes.
BlockBody(bytes) ==
    LET rest == UnboundedRead(UnboundedRead(Drop(bytes, 4)).rest).rest
    IN  Take(rest, Len(rest) - 12)

HasBlockBody(bytes) ==
    /\ BeginsWithUPS1(bytes)
    /\ UnboundedRead(Drop(bytes, 4)).ok
    /\ UnboundedRead(UnboundedRead(Drop(bytes, 4)).rest).ok
    /\ Len(UnboundedRead(UnboundedRead(Drop(bytes, 4)).rest).rest) >= 12

\* The body, read block by block, ends with bytes that start an offset
\* varint and hold no terminating byte.
RECURSIVE EndsInTruncatedOffset(_)
EndsInTruncatedOffset(body) ==
    IF body = <<>> THEN FALSE
    ELSE IF \A i \in 1..Len(body) : body[i] < 128 THEN TRUE
    ELSE LET after_offset == UnboundedRead(body).rest
             zero == memchr(0, after_offset)
         IN  IF zero.is_some
             THEN EndsInTruncatedOffset(Drop(after_offset, zero.value + 1))
             ELSE FALSE

\* C15: Patch::parse returns FormatMismatch when the block body ends with
\* bytes that start an offset varint but hold no terminating byte.
C15_TruncatedOffsetIsFormatMismatch ==
    pc = "parsed" /\ HasBlockBody(serialized)
                  /\ EndsInTruncatedOffset(BlockBody(serialized))
        => parsed.tag = "FormatMismatch"

\* C16: for an input that starts with "UPS1", Patch::parse returns
\* FormatMismatch whenever the src_size or dst_size varint cannot be read
\* (the input ends before its terminating byte, or its value overflows a
\* usize) or fewer than 12 bytes remain after the two sizes.
C16_UnreadableSizesAreFormatMismatch ==
    pc = "parsed" /\ BeginsWithUPS1(serialized) /\ ~HasBlockBody(serialized)
        => parsed.tag = "FormatMismatch"

\* C20: every block of a Patch produced by Patch::parse, returned as Ok or
\* carried inside PatchChecksumMismatch, has a non-empty xor_data terminated
\* by 0x00 and holding no other 0x00.
C20_ParsedBlocksAreZeroTerminated ==
    pc = "parsed" /\ parsed.tag \in {"Ok", "PatchChecksumMismatch"}
        => AllZeroTerminated(parsed.parsed_patch)

\* How many times e occurs in the sequence s.
Occurrences(s, e) == Cardinality({i \in 1..Len(s) : s[i] = e})

\* C22: check_errors(output, errors) returns Ok(output) iff errors is empty;
\* otherwise it returns an error value that carries the output unchanged and
\* whose iteration yields exactly the given errors, each as many times as it
\* was given, hence at least one.
C22_CheckErrorsKeepsEveryError ==
    pc = "checked" =>
        /\ result = Ok(given_output) <=> given_errors = <<>>
        /\ given_errors # <<>> =>
              /\ result.tag = "Err"
              /\ result.output = given_output
              /\ Len(ErrorsIter(result)) = Len(given_errors)
              /\ Len(ErrorsIter(result)) >= 1
              /\ \A e \in ErrorChoices :
                    Occurrences(ErrorsIter(result), e) = Occurrences(given_errors, e)

\* Three errors, one of them given twice.
C22_Witness ==
    /\ pc = "checked"
    /\ Len(given_errors) = 3
    /\ given_errors[1] = given_errors[2]
    /\ given_errors[1] # given_errors[3]
    /\ result.tag = "Err"

\* Where the cursor stands before block k when every block before it is
\* walked in full: cursor += offset, then cursor += len(xor_data).
RECURSIVE CursorBefore(_, _)
CursorBefore(blocks, k) ==
    IF k = 1 THEN 0
    ELSE CursorBefore(blocks, k - 1) + blocks[k - 1].offset + Len(blocks[k - 1].xor_data)

OutputSize == PatchDirection_metadata(direction, patch).output_size

\* Block k overruns the buffer by its offset, or by its xor_data.
OverrunsByOffset(k) == patch.blocks[k].offset >= OutputSize - CursorBefore(patch.blocks, k)
OverrunsByXorData(k) ==
    /\ ~OverrunsByOffset(k)
    /\ Len(patch.blocks[k].xor_data) >=
           OutputSize - CursorBefore(patch.blocks, k) - patch.blocks[k].offset

\* The blocks that changed the buffer: all the loop reached, but the last one
\* when the loop stopped at its offset.
AppliedBlocks ==
    IF walk # <<>> /\ walk[Len(walk)].stop = "offset" THEN Len(walk) - 1 ELSE Len(walk)

\* C23: Patch::patch stops at the first block whose offset is at least the
\* number of bytes left after the cursor or whose xor_data reaches or passes
\* the end of the buffer; a block stopped at its offset and all later blocks
\* change no output byte, and the stop records no error: the result is that
\* of the patch without them.
C23_WalkStopsAtFirstOverrun ==
    pc = "patched" /\ result.tag # "Panic" =>
        /\ Len(walk) <= Len(patch.blocks)
        /\ \A k \in 1..Len(walk) :
              /\ walk[k].stop = "offset" <=> OverrunsByOffset(k)
              /\ walk[k].stop = "xor_data" <=> OverrunsByXorData(k)
              /\ walk[k].stop # "no" => k = Len(walk)
        /\ Len(walk) < Len(patch.blocks) => walk # <<>> /\ walk[Len(walk)].stop # "no"
        /\ result = Patch_patch([patch EXCEPT !.blocks = Take(@, AppliedBlocks)],
                                direction, input)

\* The loop stopped at the offset of the first block although the second
\* block, with offset 0, would fit the buffer.
C23_Witness ==
    /\ pc = "patched" /\ result.tag # "Panic"
    /\ Len(patch.blocks) = 2 /\ Len(walk) = 1
    /\ walk[1].stop = "offset"
    /\ patch.blocks[2].offset = 0
    /\ OutputSize >= 1

\* The seed buffer of Patch::patch: the first min(input_size, output_size)
\* bytes of the input, then 0x00 up to output_size.
Seed ==
    LET metadata == PatchDirection_metadata(direction, patch)
    IN  [i \in 1..metadata.output_size |->
            IF i <= metadata.input_size THEN input[i] ELSE 0]

\* The applied blocks that cover the 1-based position i of the output.
Covering(i) ==
    {k \in 1..AppliedBlocks :
        LET first == CursorBefore(patch.blocks, k) + patch.blocks[k].offset
        IN  first < i /\ i <= first + Len(patch.blocks[k].xor_data)}

\* C24: for an input of the expected length, every position of the output
\* of Patch::patch that an applied block covers holds the seed byte XOR the
\* corresponding xor_data byte, and every other position holds the seed byte.
C24_OutputIsSeedXorBlocks ==
    pc = "patched" /\ result.tag # "Panic"
                   /\ Len(input) = PatchDirection_metadata(direction, patch).input_size
        => /\ Len(result.output) = OutputSize
           /\ \A i \in 1..OutputSize :
                 /\ Cardinality(Covering(i)) <= 1
                 /\ \A k \in Covering(i) :
                       result.output[i] =
                           BitXor(Seed[i],
                                  patch.blocks[k].xor_data[
                                      i - CursorBefore(patch.blocks, k) - patch.blocks[k].offset])
                 /\ Covering(i) = {} => result.output[i] = Seed[i]

\* Input [1, 1]; a block at offset 1 flips the second byte, the first byte
\* is covered by no block.
C24_Witness ==
    /\ pc = "patched" /\ result.tag # "Panic"
    /\ input = <<1, 1>>
    /\ PatchDirection_metadata(direction, patch).input_size = 2
    /\ OutputSize = 2
    /\ patch.blocks # <<>> /\ patch.blocks[1].offset = 1
    /\ result.output = <<1, 0>>

\* C29: during the loop over the blocks of Patch::patch the cursor never
\* exceeds output_size and every byte XORed lies at an index below
\* output_size.
C29_WalkStaysInsideOutput ==
    pc = "patched" /\ result.tag # "Panic" =>
        \A k \in 1..Len(walk) :
            /\ 0 <= walk[k].start /\ walk[k].start <= OutputSize
            /\ walk[k].next <= OutputSize
            /\ walk[k].written >= 0
            /\ walk[k].start + walk[k].written <= OutputSize

\* The second block is longer than what is left of the buffer: only the
\* bytes that fit are XORed.
C29_Witness ==
    /\ pc = "patched" /\ result.tag # "Panic"
    /\ Len(walk) = 2
    /\ walk[2].stop = "xor_data"
    /\ walk[2].written < Len(patch.blocks[2].xor_data)
    /\ walk[2].start + walk[2].written = OutputSize

\* The part of the longer file beyond the length of the shorter one.
TailOfLonger ==
    IF Len(src) < Len(dst) THEN Drop(dst, Len(src)) ELSE Drop(src, Len(dst))

\* All differing ranges of the shared part, as SliceDiffs yields them.
RECURSIVE SliceDiffsFrom(_)
SliceDiffsFrom(i) ==
    LET n == SliceDiffs_next(i)
    IN  IF n.item.is_some THEN <<n.item.value>> \o SliceDiffsFrom(n.it) ELSE <<>>

SharedRanges == SliceDiffsFrom(SliceDiffs_new(src, dst))

\* The blocks that exist before the leftover loop starts: one for each
\* differing range, and one more when the tail starts with a non-zero byte
\* that no block of a range ending at the shared length takes in.
BlocksBeforeLeftover ==
    LET n == Len(SharedRanges)
        merged == n > 0 /\ SharedRanges[n].end = Min(Len(src), Len(dst))
    IN  IF ~merged /\ TailOfLonger # <<>> /\ TailOfLonger[1] # 0 THEN n + 1 ELSE n

\* What follows the first 0x00 of t.
AfterFirstZero(t) ==
    LET zeros == {i \in 1..Len(t) : t[i] = 0}
    IN  IF zeros = {} THEN <<>>
        ELSE Drop(t, CHOOSE i \in zeros : \A j \in zeros : i <= j)

\* The number of 0x00 bytes t starts with.
LeadingZeros(t) == Cardinality({i \in 1..Len(t) : \A j \in 1..i : t[j] = 0})

\* The blocks of the non-zero runs of t: each run with a 0x00 after it and,
\* as offset, the number of 0x00 bytes skipped in front of it.
RECURSIVE RunsWithSkippedZeros(_)
RunsWithSkippedZeros(t) ==
    LET z == LeadingZeros(t)
        rest == Drop(t, z)
        r == Cardinality({i \in 1..Len(rest) : \A j \in 1..i : rest[j] # 0})
    IN  IF rest = <<>> THEN <<>>
        ELSE <<Block(z, Append(Take(rest, r), 0))>>
                 \o RunsWithSkippedZeros(Drop(rest, Min(r + 1, Len(rest))))

\* The blocks the leftover loop emitted.
LeftoverBlocks == Drop(patch.blocks, BlocksBeforeLeftover)

\* The first block that holds bytes of the tail: the block of a range ending
\* at the shared length when the tail starts with a non-zero byte, else the
\* first block after those of the ranges.
FirstTailBlock ==
    LET n == Len(SharedRanges)
        merged == n > 0 /\ SharedRanges[n].end = Min(Len(src), Len(dst))
    IN  IF merged /\ TailOfLonger # <<>> /\ TailOfLonger[1] # 0 THEN n ELSE n + 1

C25_OffsetIsStartMinusPreviousEnd ==
    pc = "diffed" =>
        /\ patch # Panic
        /\ \A k \in 1..Len(SharedRanges) :
              patch.blocks[k].offset =
                  SharedRanges[k].start - (IF k = 1 THEN 0 ELSE SharedRanges[k - 1].end)

\* C25, amended: the block of the first differing range has offset
\* range.start; the block of every later range has offset range.start minus
\* (end of the previous range + 1), the byte after the previous range being
\* taken by that block's 0x00.
C25_OffsetIsStartMinusPreviousEndAndZero ==
    pc = "diffed" =>
        /\ patch # Panic
        /\ Len(patch.blocks) >= Len(SharedRanges)
        /\ \A k \in 1..Len(SharedRanges) :
              patch.blocks[k].offset =
                  SharedRanges[k].start - (IF k = 1 THEN 0 ELSE SharedRanges[k - 1].end + 1)

\* Two differing ranges one equal byte apart: the second block has offset 0,
\* not 1.
C25_Witness ==
    /\ pc = "diffed" /\ patch # Panic
    /\ src = <<65, 0, 65>> /\ dst = <<66, 0, 66>>
    /\ Len(SharedRanges) = 2
    /\ SharedRanges[2].start - SharedRanges[1].end = 1
    /\ patch.blocks[2].offset = 0

\* C26: walking the blocks of a patch made by Patch::diff as Patch::patch
\* does (cursor += offset, XOR, cursor += len(xor_data)) puts the block of
\* each differing range [s, e) of the shared part at cursor position s.
C26_WalkPlacesBlocksAtRangeStarts ==
    pc = "diffed" =>
        /\ patch # Panic
        /\ Len(patch.blocks) >= Len(SharedRanges)
        /\ \A k \in 1..Len(SharedRanges) :
              CursorBefore(patch.blocks, k) + patch.blocks[k].offset = SharedRanges[k].start

\* Two differing ranges with one equal byte between them.
C26_Witness ==
    /\ pc = "diffed" /\ patch # Panic
    /\ Len(SharedRanges) = 2
    /\ SharedRanges[1].end = 1
    /\ SharedRanges[2].start = 2
    /\ patch.blocks[2].offset = 0

\* C28: Patch::diff never aborts: the XOR of a differing range holds no
\* 0x00, and neither diff_range.start - prev_end nor min_len - prev_end goes
\* below zero.
C28_DiffNeverAborts == pc = "diffed" => patch # Panic

\* A differing range that ends where the shorter file ends, so that
\* prev_end is min_len + 1, and a longer file that goes on.
C28_Witness ==
    /\ pc = "diffed" /\ patch # Panic
    /\ Len(src) < Len(dst)
    /\ SharedRanges # <<>>
    /\ SharedRanges[Len(SharedRanges)].end = Len(src)
    /\ dst[Len(src) + 1] # 0

\* C27: Patch::parse is total: for every byte sequence, of any length, it
\* returns Ok or an error value; input.len() - 4 and input.len() - 12 never
\* go below zero and no slice is out of range.
C27_ParseIsTotal ==
    pc = "parsed" => parsed.tag \in {"Ok", "FormatMismatch", "PatchChecksumMismatch"}

\* The magic, two readable sizes and 11 more bytes, the last four of them
\* the CRC of what precedes.
C27_Witness ==
    /\ pc = "parsed"
    /\ Len(serialized) = 17
    /\ Take(serialized, 6) = MAGIC \o <<128, 128>>
    /\ overwrite.what = "crafted"
    /\ overwrite.last = "checksum"
    /\ parsed.tag = "FormatMismatch"

=============================================================================
